---- MODULE Spec2Model ----
(***************************************************************************)
(* A model of pwnlib's Connection (src/pwnlib/connection.py): the buffer   *)
(* `data` of received-but-undelivered bytes, the socket, and the read and  *)
(* write operations built on socket.recv / socket.send.                    *)
(*                                                                         *)
(* A read call is modelled at the granularity of its suspension points:    *)
(* one step enters the call, one step per socket.recv of its loop, one     *)
(* step for the split-and-return.  write and close have no loop and are    *)
(* one step each.  The connection is used by one thread, so a new call     *)
(* starts only when no call is running.                                    *)
(***************************************************************************)
EXTENDS Integers, Sequences, FiniteSets, TLC

\* ------------------------------------------------------------ bounds
MaxStream == 2      \* longest byte stream the peer sends
MaxCalls == 2       \* calls made on the connection in one behaviour
MaxIntCalls == 1    \* write_int calls among them

\* ------------------------------------------------------------ program constants
NL == 10                    \* b"\n", the delimiter of read_line
MAX_RECEIVE_SIZE == 512     \* Connection.MAX_RECEIVE_SIZE = 0x200

\* ------------------------------------------------------------ input sets
StreamBytes == {NL, 97}
SeqsUpTo(S, n) == UNION {[1..k -> S] : k \in 0..n}
Streams == SeqsUpTo(StreamBytes, MaxStream)
ByteCounts == (-1)..MaxStream
Delimiters == {<<NL>>, <<97, NL>>}
WriteValues == {<<1, 2>>}
IntStreams == {<<NL, 97>>}     \* SpecInt: a line, then a byte left pending
IntValues == {-32769, -32768, -129, -128, -1, 0, 127, 128, 255, 256, 258,
              32767, 32768, 65535, 65536}
IntByteCounts == {1, 2}
ByteOrders == {"little", "big"}

Min(a, b) == IF a < b THEN a ELSE b

\* ------------------------------------------------------------ Python bytes
\* The position a slice bound k denotes in a sequence of length n:
\* negative bounds count from the end, and every bound is clamped to 0..n.
SliceBound(n, k) ==
    IF k < 0 THEN (IF n + k < 0 THEN 0 ELSE n + k) ELSE Min(k, n)

\* s[:k]
Prefix(s, k) == SubSeq(s, 1, SliceBound(Len(s), k))

\* (mutant of Suffix: the returned bytes are not removed)
SuffixKeepsAll(s, k) == s

\* s[k:]
Suffix(s, k) == SubSeq(s, SliceBound(Len(s), k) + 1, Len(s))

\* s, v: does v occur in s at 0-based offset i
OccursAt(s, v, i) ==
    /\ i >= 0
    /\ i + Len(v) <= Len(s)
    /\ SubSeq(s, i + 1, i + Len(v)) = v

\* (mutant of Find: the highest offset, as s.rfind(v))
FindLast(s, v) ==
    IF \E i \in 0..Len(s) : OccursAt(s, v, i)
    THEN CHOOSE i \in 0..Len(s) :
            OccursAt(s, v, i) /\ \A j \in (i + 1)..Len(s) : ~OccursAt(s, v, j)
    ELSE -1

\* s.find(v): the lowest offset at which v occurs in s, or -1
Find(s, v) ==
    IF \E i \in 0..Len(s) : OccursAt(s, v, i)
    THEN CHOOSE i \in 0..Len(s) :
            OccursAt(s, v, i) /\ \A j \in 0..(i - 1) : ~OccursAt(s, v, j)
    ELSE -1

\* (mutant of Fits: a negative value is let through as unsigned)
FitsUnchecked(value, byte_count, signed) ==
    IF signed
    THEN -(2 ^ (8 * byte_count - 1)) <= value /\ value < 2 ^ (8 * byte_count - 1)
    ELSE value < 2 ^ (8 * byte_count)

\* int.to_bytes raises OverflowError unless this holds
Fits(value, byte_count, signed) ==
    IF signed
    THEN -(2 ^ (8 * byte_count - 1)) <= value /\ value < 2 ^ (8 * byte_count - 1)
    ELSE 0 <= value /\ value < 2 ^ (8 * byte_count)

\* (mutant of ToBytes: the byte order is ignored)
ToBytesLittle(value, byte_count, byte_order) ==
    LET m == value % (256 ^ byte_count)
    IN  [i \in 1..byte_count |-> (m \div (256 ^ (i - 1))) % 256]

\* value.to_bytes(byte_count, byte_order, signed=...) for a value that fits:
\* the base-256 digits of value modulo 2^(8*byte_count)
ToBytes(value, byte_count, byte_order) ==
    LET m == value % (256 ^ byte_count)
        digit(i) == (m \div (256 ^ i)) % 256
    IN  [i \in 1..byte_count |->
            IF byte_order = "little" THEN digit(i - 1) ELSE digit(byte_count - i)]

\* ------------------------------------------------------------ state
VARIABLES
    data,       \* Connection.data: bytes received and not yet returned
    sock,       \* Connection.socket: "open" or "closed" (after close())
    wire,       \* transport: bytes the peer has sent and recv has not returned yet
    peerClosed, \* transport: the peer has shut the stream down
    frame,      \* the call in progress (op = "idle" when none)
    history,    \* the completed calls, oldest first
    received,   \* every byte socket.recv has returned, in order
    delivered,  \* every byte a read call has returned to its caller, in order
    sent,       \* every byte socket.send has accepted, in order
    log         \* the events handed to the logger, in order

vars == <<data, sock, wire, peerClosed, frame, history, received, delivered, sent, log>>

\* The arguments of a call; the fields an operation does not take are blank.
Args(byte_count, value, include) ==
    [byte_count |-> byte_count, value |-> value, include |-> include,
     int |-> 0, byte_order |-> "little", signed |-> FALSE]

IntArgs(int, byte_count, byte_order, signed) ==
    [byte_count |-> byte_count, value |-> <<>>, include |-> FALSE,
     int |-> int, byte_order |-> byte_order, signed |-> signed]

Idle ==
    [op |-> "idle", args |-> Args(0, <<>>, FALSE),
     data0 |-> <<>>, stream0 |-> <<>>, open |-> TRUE, nlog0 |-> 0, nsent0 |-> 0,
     got |-> <<>>, recvs |-> 0, zero |-> FALSE, lines |-> <<>>]

\* A call as it starts: its arguments and what it finds.
Enter(op, args) ==
    [op |-> op, args |-> args,
     data0 |-> data,              \* pending when the call starts
     stream0 |-> data \o wire,    \* the unconsumed stream when the call starts
     open |-> (sock = "open"),    \* close() has not been called
     nlog0 |-> Len(log),          \* events logged before the call
     nsent0 |-> Len(sent),        \* bytes sent before the call
     got |-> <<>>,                \* bytes this call has received so far
     recvs |-> 0,                 \* receives of this call that returned bytes
     zero |-> FALSE,              \* this call has seen a zero-length receive
     lines |-> <<>>]              \* read_lines: the lines read so far

\* A call as it ends, in the state it leaves: status "ok" with its result,
\* or the error it raised ("timeout", "closed", "overflow"); `passed` is what
\* the call handed to socket.send and `accepted` what socket.send took of it.
Done(f, status, result, passed, accepted, data1, log1, sent1) ==
    [op |-> f.op, args |-> f.args,
     data0 |-> f.data0, stream0 |-> f.stream0, open |-> f.open,
     nlog0 |-> f.nlog0, nsent0 |-> f.nsent0, got |-> f.got, recvs |-> f.recvs,
     lines |-> f.lines,
     status |-> status, result |-> result, passed |-> passed, accepted |-> accepted,
     data1 |-> data1, stream1 |-> data1 \o wire,
     nlog1 |-> Len(log1), nsent1 |-> Len(sent1)]

Event(level, message, bytes) == [level |-> level, message |-> message, bytes |-> bytes]

\* ------------------------------------------------------------ transport
\* socket.recv(maxBytes): the outcomes the socket can produce.  A closed
\* socket raises OSError ("closed"); a peer that has shut down and has
\* nothing more in flight yields the zero-length read; otherwise recv
\* returns between 1 and maxBytes of the bytes in flight, or times out.
RecvOutcomes(maxBytes) ==
    IF sock = "closed"
    THEN {[kind |-> "closed", chunk |-> <<>>]}
    ELSE {[kind |-> "bytes", chunk |-> SubSeq(wire, 1, k)] :
             k \in 1..Min(maxBytes, Len(wire))}
         \cup (IF wire = <<>> /\ peerClosed
               THEN {[kind |-> "bytes", chunk |-> <<>>]}
               ELSE {[kind |-> "timeout", chunk |-> <<>>]})

\* socket.send(value): the number of bytes accepted (any non-empty prefix),
\* or the error raised.
SendOutcomes(value) ==
    IF sock = "closed"
    THEN {[kind |-> "closed", count |-> 0]}
    ELSE {[kind |-> "count", count |-> k] :
             k \in (IF value = <<>> THEN {0} ELSE 1..Len(value))}
         \cup {[kind |-> "timeout", count |-> 0]}
         \cup (IF peerClosed THEN {[kind |-> "closed", count |-> 0]} ELSE {})

\* ------------------------------------------------------------ Connection
Init ==
    /\ data = <<>>
    /\ sock = "open"
    /\ wire \in Streams
    /\ peerClosed = FALSE
    /\ frame = Idle
    /\ history = <<>>
    /\ received = <<>>
    /\ delivered = <<>>
    /\ sent = <<>>
    /\ log = <<Event("INFO", "Connected", <<>>)>>

CanCall == frame.op = "idle" /\ Len(history) < MaxCalls

\* (mutant of NeedsMore: `<=` for `<`)
NeedsMoreInclusive(d, byte_count) == Len(d) <= byte_count

\* (mutant of NeedsMore: `if` for `while`, one receive at most)
NeedsMoreOnce(d, byte_count) == d = <<>> /\ Len(d) < byte_count

\* read_raw: the loop condition
NeedsMore(d, byte_count) == Len(d) < byte_count

\* (mutant of Extend: `=` for `+=`)
ExtendOverwrites(d, chunk) == chunk

\* self.data += chunk
Extend(d, chunk) == d \o chunk

\* (mutant of RecvRaised: the buffer is reset on an error)
RecvRaisedResets(d) == <<>>

\* self.data += self.socket.recv(...) when recv raises: no assignment happens
RecvRaised(d) == d

\* (mutant of SplitIndex: the delimiter is always taken)
SplitIndexIncludes(index, value, include) == index + Len(value)

\* read_until: where data is split once the delimiter is found at `index`
SplitIndex(index, value, include) ==
    IF include THEN index + Len(value) ELSE index

\* One socket.recv of a read loop, with `maxBytes` as its argument.
RecvStep(maxBytes) ==
    \E o \in RecvOutcomes(maxBytes) :
        IF o.kind = "bytes"
        THEN /\ data' = Extend(data, o.chunk)
             /\ wire' = SubSeq(wire, Len(o.chunk) + 1, Len(wire))
             /\ received' = received \o o.chunk
             /\ frame' = [frame EXCEPT !.got = @ \o o.chunk,
                                       !.recvs = IF o.chunk = <<>> THEN @ ELSE @ + 1,
                                       !.zero = @ \/ o.chunk = <<>>]
             /\ UNCHANGED <<sock, peerClosed, history, delivered, sent, log>>
        ELSE /\ data' = RecvRaised(data)
             /\ history' = Append(history,
                    Done(frame, o.kind, <<>>, <<>>, <<>>, data', log, sent))
             /\ frame' = Idle
             /\ UNCHANGED <<sock, wire, peerClosed, received, delivered, sent, log>>

\* result, self.data = self.data[:index], self.data[index:]; trace; return
SplitReturn(index) ==
    LET result == Prefix(data, index) IN
    /\ data' = Suffix(data, index)
    /\ delivered' = delivered \o result
    /\ log' = Append(log, Event("TRACE", "->", result))
    /\ history' = Append(history,
           Done(frame, "ok", result, <<>>, <<>>, data', log', sent))
    /\ frame' = Idle
    /\ UNCHANGED <<sock, wire, peerClosed, received, sent>>

ReadRawCall(byte_count) ==
    /\ CanCall
    /\ frame' = Enter("read_raw", Args(byte_count, <<>>, FALSE))
    /\ UNCHANGED <<data, sock, wire, peerClosed, history, received, delivered, sent, log>>

\* (mutant of ReadRawRecv: a full-size receive, as read_until does)
ReadRawRecvChunk ==
    /\ frame.op = "read_raw"
    /\ NeedsMore(data, frame.args.byte_count)
    /\ RecvStep(MAX_RECEIVE_SIZE)

\* read_raw: self.data += self.socket.recv(byte_count - len(self.data))
ReadRawRecv ==
    /\ frame.op = "read_raw"
    /\ NeedsMore(data, frame.args.byte_count)
    /\ RecvStep(frame.args.byte_count - Len(data))

ReadRawReturn ==
    /\ frame.op = "read_raw"
    /\ ~NeedsMore(data, frame.args.byte_count)
    /\ SplitReturn(frame.args.byte_count)

ReadUntilCall(value, include) ==
    /\ CanCall
    /\ frame' = Enter("read_until", Args(0, value, include))
    /\ UNCHANGED <<data, sock, wire, peerClosed, history, received, delivered, sent, log>>

\* read_line: read_until(b"\n")
ReadLineCall == ReadUntilCall(<<NL>>, TRUE)

ReadUntilRecv ==
    /\ frame.op = "read_until"
    /\ Find(data, frame.args.value) = -1
    /\ RecvStep(MAX_RECEIVE_SIZE)

ReadUntilReturn ==
    /\ frame.op = "read_until"
    /\ Find(data, frame.args.value) # -1
    /\ SplitReturn(SplitIndex(Find(data, frame.args.value),
                              frame.args.value, frame.args.include))

\* (mutant of Send: the trace is written before the send)
SendTracesFirst(f, value) ==
    /\ log' = Append(log, Event("TRACE", "<-", value))
    /\ \E o \in SendOutcomes(value) :
        IF o.kind = "count"
        THEN /\ sent' = sent \o SubSeq(value, 1, o.count)
             /\ history' = Append(history,
                    Done(f, "ok", <<>>, value, SubSeq(value, 1, o.count), data, log', sent'))
        ELSE /\ history' = Append(history,
                    Done(f, o.kind, <<>>, value, <<>>, data, log', sent))
             /\ UNCHANGED sent
    /\ UNCHANGED <<data, sock, wire, peerClosed, frame, received, delivered>>

\* self.socket.send(value); self.trace("<-", value) -- for the call f
Send(f, value) ==
    /\ \E o \in SendOutcomes(value) :
        IF o.kind = "count"
        THEN /\ sent' = sent \o SubSeq(value, 1, o.count)
             /\ log' = Append(log, Event("TRACE", "<-", value))
             /\ history' = Append(history,
                    Done(f, "ok", <<>>, value, SubSeq(value, 1, o.count), data, log', sent'))
        ELSE /\ history' = Append(history,
                    Done(f, o.kind, <<>>, value, <<>>, data, log, sent))
             /\ UNCHANGED <<sent, log>>
    /\ UNCHANGED <<data, sock, wire, peerClosed, frame, received, delivered>>

Write(value) ==
    /\ CanCall
    /\ Send(Enter("write", Args(0, value, FALSE)), value)

IntCalls == Cardinality({i \in DOMAIN history : history[i].op = "write_int"})

\* self.write(value.to_bytes(byte_count, byte_order, signed=signed))
WriteInt(value, byte_count, byte_order, signed) ==
    LET f == Enter("write_int", IntArgs(value, byte_count, byte_order, signed)) IN
    /\ CanCall
    /\ IntCalls < MaxIntCalls
    /\ IF Fits(value, byte_count, signed)
       THEN Send(f, ToBytes(value, byte_count, byte_order))
       ELSE /\ history' = Append(history,
                   Done(f, "overflow", <<>>, <<>>, <<>>, data, log, sent))
            /\ UNCHANGED <<data, sock, wire, peerClosed, frame, received, delivered,
                           sent, log>>

\* the bytes of a list of lines, in order
RECURSIVE Concat(_)
Concat(ss) == IF ss = <<>> THEN <<>> ELSE Head(ss) \o Concat(Tail(ss))

\* (mutant of MoreLines: the comprehension stops one line early)
MoreLinesShort(lines, count) == Len(lines) < count - 1

\* read_lines: for _ in range(count) has another iteration to run
MoreLines(lines, count) == Len(lines) < count

ReadLinesCall(count) ==
    /\ CanCall
    /\ frame' = Enter("read_lines", Args(count, <<NL>>, TRUE))
    /\ UNCHANGED <<data, sock, wire, peerClosed, history, received, delivered, sent, log>>

\* the read_line of the current iteration has no newline pending: it receives
ReadLinesRecv ==
    /\ frame.op = "read_lines"
    /\ MoreLines(frame.lines, frame.args.byte_count)
    /\ Find(data, frame.args.value) = -1
    /\ RecvStep(MAX_RECEIVE_SIZE)

\* the read_line of the current iteration returns its line to the comprehension
ReadLinesLine ==
    /\ frame.op = "read_lines"
    /\ MoreLines(frame.lines, frame.args.byte_count)
    /\ Find(data, frame.args.value) # -1
    /\ LET index == SplitIndex(Find(data, frame.args.value), frame.args.value, TRUE)
           result == Prefix(data, index)
       IN  /\ data' = Suffix(data, index)
           /\ log' = Append(log, Event("TRACE", "->", result))
           /\ frame' = [frame EXCEPT !.lines = Append(@, result)]
    /\ UNCHANGED <<sock, wire, peerClosed, history, received, delivered, sent>>

\* the comprehension is complete: read_lines returns the list
ReadLinesReturn ==
    /\ frame.op = "read_lines"
    /\ ~MoreLines(frame.lines, frame.args.byte_count)
    /\ delivered' = delivered \o Concat(frame.lines)
    /\ history' = Append(history,
           Done(frame, "ok", frame.lines, <<>>, <<>>, data, log, sent))
    /\ frame' = Idle
    /\ UNCHANGED <<data, sock, wire, peerClosed, received, sent, log>>

\* close() is called at most once on a connection (a second close is the
\* caller's error); it is not entered in `history`, `sock` records it.
Close ==
    /\ frame.op = "idle"
    /\ sock = "open"
    /\ sock' = "closed"
    /\ log' = Append(log, Event("INFO", "Disconnected", <<>>))
    /\ UNCHANGED <<data, wire, peerClosed, frame, history, received, delivered, sent>>

\* The peer shuts its side down; what it sent before stays receivable.
PeerClose ==
    /\ ~peerClosed
    /\ peerClosed' = TRUE
    /\ UNCHANGED <<data, sock, wire, frame, history, received, delivered, sent, log>>

Next ==
    \/ \E n \in ByteCounts : ReadRawCall(n)
    \/ ReadRawRecv
    \/ ReadRawReturn
    \/ \E v \in Delimiters, i \in BOOLEAN : ReadUntilCall(v, i)
    \/ ReadLineCall
    \/ ReadUntilRecv
    \/ ReadUntilReturn
    \/ \E v \in WriteValues : Write(v)
    \/ Close
    \/ PeerClose

Spec == Init /\ [][Next]_vars

\* The integer writer on its own, with a line reader to fill the buffer.
InitInt == Init /\ wire \in IntStreams

NextInt ==
    \/ ReadLineCall
    \/ ReadUntilRecv
    \/ ReadUntilReturn
    \/ \E v \in IntValues, n \in IntByteCounts, o \in ByteOrders, s \in BOOLEAN :
          WriteInt(v, n, o, s)
    \/ Close

SpecInt == InitInt /\ [][NextInt]_vars

\* The line readers on their own.
LineCounts == 0..MaxStream

NextLines ==
    \/ \E c \in LineCounts : ReadLinesCall(c)
    \/ ReadLinesRecv
    \/ ReadLinesLine
    \/ ReadLinesReturn
    \/ ReadLineCall
    \/ ReadUntilRecv
    \/ ReadUntilReturn
    \/ \E n \in ByteCounts : ReadRawCall(n)
    \/ ReadRawRecv
    \/ ReadRawReturn
    \/ PeerClose

SpecLines == Init /\ [][NextLines]_vars

\* ------------------------------------------------------------ with-block
\* What the body of `with connection:` ended with: nothing raised, a
\* protocol failure raised by the user's code, or any other exception.
ExcTypes == {"none", "protocol", "other"}

ExitArgs(exc) == [exc |-> exc] @@ Args(0, <<>>, FALSE)

\* (mutant of ExitCloses: closes only when the body raised nothing)
ExitClosesWhenClean(exc) == exc = "none"

\* __exit__: self.close() is called whatever the body ended with
ExitCloses(exc) == TRUE

\* (mutant of ExitReturns: a protocol failure is swallowed)
ExitReturnsSuppresses(exc) == exc = "protocol"

\* __exit__: return False, so an exception of the body propagates
ExitReturns(exc) == FALSE

\* The with-block is left once; __exit__ returns ExitReturns(exc).
Exit(exc) ==
    LET f == Enter("__exit__", ExitArgs(exc)) IN
    /\ frame.op = "idle"
    /\ \A i \in DOMAIN history : history[i].op # "__exit__"
    /\ IF ExitCloses(exc)
       THEN /\ sock' = "closed"
            /\ log' = Append(log, Event("INFO", "Disconnected", <<>>))
       ELSE UNCHANGED <<sock, log>>
    /\ history' = Append(history,
           Done(f, "ok", ExitReturns(exc), <<>>, <<>>, data, log', sent))
    /\ UNCHANGED <<data, wire, peerClosed, frame, received, delivered, sent>>

NextScope ==
    \/ ReadLineCall
    \/ ReadUntilRecv
    \/ ReadUntilReturn
    \/ \E v \in WriteValues : Write(v)
    \/ Close
    \/ PeerClose
    \/ \E exc \in ExcTypes : Exit(exc)

SpecScope == Init /\ [][NextScope]_vars

\* ------------------------------------------------------------ properties
Reads == {"read_raw", "read_until"}

IsOk(r) == r.status = "ok"

\* the lowest offset at which d occurs in s (d does occur in s)
FirstOccurrence(s, d) ==
    CHOOSE i \in 0..Len(s) :
        OccursAt(s, d, i) /\ \A j \in 0..(i - 1) : ~OccursAt(s, d, j)

\* the complete d-terminated records of s, in order
RECURSIVE Records(_, _)
Records(s, d) ==
    IF \E i \in 0..Len(s) : OccursAt(s, d, i)
    THEN LET end == FirstOccurrence(s, d) + Len(d)
         IN  <<SubSeq(s, 1, end)>> \o Records(SubSeq(s, end + 1, Len(s)), d)
    ELSE <<>>

\* C1: at every moment the bytes returned to callers so far, followed by the
\* pending buffer, are exactly the bytes received from the transport so far,
\* in order: no byte is dropped, duplicated or reordered.
NoByteLost == delivered \o data = received

\* a read timed out after receiving, later bytes were returned, others are pending
NoByteLostWitness ==
    /\ \E i \in DOMAIN history : history[i].status = "timeout" /\ history[i].recvs >= 1
    /\ delivered # <<>>
    /\ data # <<>>
    /\ frame.op = "idle"

\* C2: a successful read_raw(n) with n >= 0 returns exactly n bytes, the first
\* n of (pending at call time followed by the bytes received during the
\* call), and leaves exactly the rest of that concatenation pending.
ReadExactContract ==
    \A i \in DOMAIN history :
        LET r == history[i]
            n == r.args.byte_count
            all == r.data0 \o r.got
        IN  (r.op = "read_raw" /\ IsOk(r) /\ n >= 0) =>
                /\ Len(r.result) = n
                /\ Len(all) >= n
                /\ r.result = SubSeq(all, 1, n)
                /\ r.data1 = SubSeq(all, n + 1, Len(all))

\* a read_raw that found a byte pending and received the rest
ReadExactWitness ==
    \E i \in DOMAIN history :
        /\ history[i].op = "read_raw" /\ IsOk(history[i])
        /\ history[i].data0 # <<>>
        /\ history[i].recvs >= 1
        /\ history[i].args.byte_count = Len(history[i].data0) + Len(history[i].got)

\* C3: when every call so far is read_until(d, include=True) for one non-empty
\* d, the successful calls return, call by call, the d-terminated records of
\* the stream in stream order, and each result ends at the first occurrence
\* of d in the stream that was unconsumed when its call started -- however
\* the transport chunked the stream, and whichever calls timed out between.
Framing ==
    \A d \in Delimiters :
        (/\ history # <<>>
         /\ \A i \in DOMAIN history :
               /\ history[i].op = "read_until"
               /\ history[i].args.value = d
               /\ history[i].args.include) =>
            LET recs == Records(history[1].stream0, d)
                oks == SelectSeq(history, IsOk)
            IN  /\ Len(oks) <= Len(recs)
                /\ \A j \in DOMAIN oks :
                      /\ oks[j].result = recs[j]
                      /\ OccursAt(oks[j].stream0, d, Len(oks[j].result) - Len(d))
                      /\ FirstOccurrence(oks[j].stream0, d) = Len(oks[j].result) - Len(d)

\* two records returned by two calls, the second record having arrived in
\* the chunk that completed the first
FramingWitness ==
    /\ Len(history) = 2
    /\ \A i \in DOMAIN history :
          /\ history[i].op = "read_until" /\ history[i].args.include
          /\ history[i].args.value = history[1].args.value
          /\ IsOk(history[i])
    /\ history[1].recvs >= 1
    /\ history[1].data1 # <<>>
    /\ history[2].got = <<>>

\* C4: starting with nothing pending and a stream B in flight, read_raw(k)
\* followed by read_raw(Len(B) - k) returns B[0..k) and then B[k..Len(B)),
\* whatever chunks the transport delivered B in.
ChunkIndependence ==
    \A i \in DOMAIN history :
        (i + 1) \in DOMAIN history =>
            LET r1 == history[i]
                r2 == history[i + 1]
                B == r1.stream0
                k == r1.args.byte_count
            IN  (/\ r1.op = "read_raw" /\ r2.op = "read_raw"
                 /\ r1.data0 = <<>>
                 /\ 0 <= k /\ k <= Len(B)
                 /\ r2.args.byte_count = Len(B) - k
                 /\ IsOk(r1) /\ IsOk(r2)) =>
                    /\ r1.result = SubSeq(B, 1, k)
                    /\ r2.result = SubSeq(B, k + 1, Len(B))

\* B of two bytes split 1 + 1, each piece received by its own call
ChunkIndependenceWitness ==
    /\ Len(history) = 2
    /\ history[1].op = "read_raw" /\ history[2].op = "read_raw"
    /\ IsOk(history[1]) /\ IsOk(history[2])
    /\ history[1].args.byte_count = 1 /\ history[2].args.byte_count = 1
    /\ Len(history[1].stream0) = 2
    /\ history[1].recvs = 1 /\ history[2].recvs = 1

\* C5: a read_raw or read_until that times out after some of its receives
\* succeeded returns nothing and consumes nothing, leaves pending equal to
\* what was pending at call time followed by what it received, and a
\* read_raw(n) that follows it and succeeds returns those pending bytes first.
NoLossAcrossTimeout ==
    \A i \in DOMAIN history :
        LET r == history[i] IN
        (r.op \in Reads /\ r.status = "timeout" /\ r.recvs >= 1) =>
            /\ r.result = <<>>
            /\ r.nlog1 = r.nlog0
            /\ r.data1 = r.data0 \o r.got
            /\ r.stream1 = r.stream0
            /\ (i + 1) \in DOMAIN history =>
                  LET q == history[i + 1]
                      m == Min(q.args.byte_count, Len(r.data1))
                  IN  (q.op = "read_raw" /\ IsOk(q) /\ q.args.byte_count >= 0) =>
                          SubSeq(q.result, 1, m) = SubSeq(r.data1, 1, m)

\* a read timed out with bytes buffered, and the next read_raw returned them
\* and more
NoLossAcrossTimeoutWitness ==
    /\ Len(history) = 2
    /\ history[1].op \in Reads /\ history[1].status = "timeout"
    /\ history[1].recvs >= 1
    /\ history[2].op = "read_raw" /\ IsOk(history[2])
    /\ history[2].got # <<>>

\* C6: once the peer has closed and a receive of a read call has yielded the
\* zero-length read, that call has ended with a connection-closed error: no
\* read call is still running after a zero-length receive.
ClosedPeerEndsRead == ~(frame.op \in Reads /\ frame.zero)

\* C7: every read_raw and every write called after close() fails with a
\* connection-closed error.
FailsAfterClose ==
    \A i \in DOMAIN history :
        (/\ history[i].op \in {"read_raw", "write"}
         /\ history[i].args.byte_count >= 0
         /\ ~history[i].open) =>
            history[i].status = "closed"

\* C8: a write that returns without error has had the transport accept every
\* byte of its argument, in order.
WriteSendsAll ==
    \A i \in DOMAIN history :
        (history[i].op = "write" /\ IsOk(history[i])) =>
            /\ history[i].passed = history[i].args.value
            /\ history[i].accepted = history[i].args.value

\* the claims' range of values that fit in n bytes
InRange(v, n, signed) ==
    IF signed
    THEN -(2 ^ (8 * n - 1)) <= v /\ v <= 2 ^ (8 * n - 1) - 1
    ELSE 0 <= v /\ v <= 2 ^ (8 * n) - 1

\* the number a byte sequence denotes, most significant byte first
RECURSIVE BigEndianValue(_)
BigEndianValue(b) ==
    IF b = <<>> THEN 0
    ELSE 256 * BigEndianValue(SubSeq(b, 1, Len(b) - 1)) + b[Len(b)]

Reversed(b) == [i \in 1..Len(b) |-> b[Len(b) + 1 - i]]

\* the integer a fixed-width encoding denotes
Decoded(b, byte_order, signed) ==
    LET u == BigEndianValue(IF byte_order = "big" THEN b ELSE Reversed(b))
    IN  IF signed /\ u >= 2 ^ (8 * Len(b) - 1) THEN u - 2 ^ (8 * Len(b)) ELSE u

IsWriteInt(r, v, n, byte_order, signed) ==
    /\ r.op = "write_int"
    /\ r.args.int = v /\ r.args.byte_count = n
    /\ r.args.byte_order = byte_order /\ r.args.signed = signed

\* C9: for a value that fits, write_int hands to the transport write exactly
\* byte_count bytes, each in 0..255, that decode (two's complement when
\* signed, in the given byte order) to the value; (258, 2, big, unsigned)
\* gives 01 02, (258, 2, little, unsigned) gives 02 01, (-1, 1, little,
\* signed) gives FF.
IntEncoding ==
    \A i \in DOMAIN history :
        LET r == history[i] IN
        (r.op = "write_int" /\ InRange(r.args.int, r.args.byte_count, r.args.signed)) =>
            /\ r.status # "overflow"
            /\ Len(r.passed) = r.args.byte_count
            /\ \A j \in DOMAIN r.passed : r.passed[j] \in 0..255
            /\ Decoded(r.passed, r.args.byte_order, r.args.signed) = r.args.int
            /\ IsWriteInt(r, 258, 2, "big", FALSE) => r.passed = <<1, 2>>
            /\ IsWriteInt(r, 258, 2, "little", FALSE) => r.passed = <<2, 1>>
            /\ IsWriteInt(r, -1, 1, "little", TRUE) => r.passed = <<255>>

\* a negative value written in two bytes, most significant first
IntEncodingWitness ==
    \E i \in DOMAIN history :
        /\ IsWriteInt(history[i], -129, 2, "big", TRUE)
        /\ IsOk(history[i])
        /\ history[i].accepted = <<255, 127>>

\* C10: for a value that does not fit, write_int fails with the encoding
\* error and nothing else happens: nothing is handed to the transport, no
\* event is logged, and pending is what it was.
IntOverflowWritesNothing ==
    \A i \in DOMAIN history :
        LET r == history[i] IN
        (r.op = "write_int" /\ ~InRange(r.args.int, r.args.byte_count, r.args.signed)) =>
            /\ r.status = "overflow"
            /\ r.passed = <<>> /\ r.accepted = <<>>
            /\ r.nsent1 = r.nsent0
            /\ r.nlog1 = r.nlog0
            /\ r.data1 = r.data0

\* -1 refused as unsigned while a byte is pending
IntOverflowWitness ==
    \E i \in DOMAIN history :
        /\ IsWriteInt(history[i], -1, 1, "little", FALSE)
        /\ history[i].status = "overflow"
        /\ history[i].data0 # <<>>
        /\ sent = <<>>

IsReadLines(r) == r.op = "read_lines"

\* the trace events a completed call wrote, in order
Traced(r) == SubSeq(log, r.nlog0 + 1, r.nlog1)

\* C11: read_lines(count) runs read_line once per element, in order: a call
\* that returns has run it exactly count times and returns exactly count
\* elements, the i-th being the i-th newline-terminated line of the stream
\* from the front of pending; a call that fails has run fewer than count
\* to completion, none after the failing one, and returns no list at all.
ReadLinesContract ==
    \A i \in DOMAIN history :
        LET r == history[i]
            count == r.args.byte_count
        IN  IsReadLines(r) =>
                /\ Traced(r) = [k \in 1..Len(r.lines) |-> Event("TRACE", "->", r.lines[k])]
                /\ r.lines = SubSeq(Records(r.stream0, <<NL>>), 1, Len(r.lines))
                /\ IF IsOk(r)
                   THEN /\ Len(r.result) = count
                        /\ r.result = r.lines
                   ELSE /\ Len(r.lines) < count
                        /\ r.result = <<>>

\* a read_lines(2) that returned two lines, and one that failed after its
\* first line
ReadLinesWitness ==
    /\ Len(history) = 2
    /\ IsReadLines(history[1]) /\ ~IsOk(history[1])
    /\ Len(history[1].lines) = 1 /\ history[1].args.byte_count = 2
    /\ IsReadLines(history[2]) /\ IsOk(history[2])
    /\ history[2].args.byte_count = 1 /\ Len(history[2].result) = 1

\* C17: a read_lines that fails after some of its lines were read loses no
\* byte: the call has consumed nothing (what was pending and in flight when
\* it was called is pending and in flight when it fails), the bytes returned
\* to callers followed by pending are still the bytes received, and the
\* next read that returns bytes returns the first byte of the first of
\* those lines first.
FailedReadLinesKeepsLines ==
    \A i \in DOMAIN history :
        LET r == history[i] IN
        (IsReadLines(r) /\ ~IsOk(r) /\ Len(r.lines) >= 1) =>
            /\ r.stream1 = r.stream0
            /\ (i = Len(history) /\ frame.op = "idle") => delivered \o data = received
            /\ \A j \in DOMAIN history :
                   (j = i + 1 /\ IsOk(history[j]) /\ history[j].op \in Reads
                        /\ history[j].result # <<>>)
                       => history[j].result[1] = r.lines[1][1]

IsWrite(r) == r.op = "write"

\* C14: the trace event of a write is written only once send has returned:
\* a write whose send raised wrote no event, a write whose send returned
\* wrote exactly one, for the bytes it was given, before it returned; so
\* the log holds one "<-" event per successful write and no other.
WriteTraceAfterSend ==
    /\ \A i \in DOMAIN history :
           LET r == history[i] IN
           IsWrite(r) =>
               Traced(r) = IF IsOk(r) THEN <<Event("TRACE", "<-", r.passed)>> ELSE <<>>
    /\ Cardinality({k \in DOMAIN log : log[k].message = "<-"})
           = Cardinality({i \in DOMAIN history : IsWrite(history[i]) /\ IsOk(history[i])})

\* a write whose send raised, then a write whose send returned
WriteTraceWitness ==
    /\ Len(history) = 2
    /\ IsWrite(history[1]) /\ history[1].status = "timeout"
    /\ IsWrite(history[2]) /\ IsOk(history[2])

\* pending alone satisfies the read call f
PendingSatisfies(f) ==
    \/ f.op = "read_raw" /\ Len(f.data0) >= f.args.byte_count
    \/ f.op = "read_until" /\ Find(f.data0, f.args.value) # -1

\* what is in flight: the undelivered part of the stream
InFlight(stream, pending) == SubSeq(stream, Len(pending) + 1, Len(stream))

\* C15: a read that pending can satisfy (read_raw(n) with len(pending) >= n,
\* read_until(d) with d in pending) never calls recv: while it runs it has
\* received nothing, and it always returns, never fails, with a result cut
\* from what was pending, leaving what is in flight as it was.
NoReceiveWhenPendingSuffices ==
    /\ (frame.op \in Reads /\ PendingSatisfies(frame)) =>
           /\ frame.got = <<>> /\ frame.recvs = 0 /\ ~frame.zero
           /\ data = frame.data0
    /\ \A i \in DOMAIN history :
           LET r == history[i] IN
           (r.op \in Reads /\ PendingSatisfies(r)) =>
               /\ IsOk(r)
               /\ r.got = <<>> /\ r.recvs = 0
               /\ r.result \o r.data1 = r.data0
               /\ InFlight(r.stream1, r.data1) = InFlight(r.stream0, r.data0)

\* a read_raw served from pending while a byte was in flight, untouched
NoReceiveWitness ==
    \E i \in DOMAIN history :
        LET r == history[i] IN
        /\ r.op = "read_raw" /\ r.args.byte_count >= 1 /\ PendingSatisfies(r)
        /\ IsOk(r) /\ r.result # <<>>
        /\ InFlight(r.stream1, r.data1) # <<>>

\* C16: close() discards pending: once the socket is closed, pending is
\* empty.
CloseDiscardsPending == sock = "closed" => data = <<>>

Larger(a, b) == IF a >= b THEN a ELSE b

\* C18: read_raw(n) never over-reads: its receives bring at most the
\* n - len(pending) bytes still missing, so they never take pending beyond
\* n, and a call made with len(pending) <= n that returns leaves pending
\* empty, its result being what was pending followed by what it received,
\* whatever else is in flight.
ReadExactNeverOverReads ==
    /\ frame.op = "read_raw" =>
           /\ Len(data) <= Larger(frame.args.byte_count, Len(frame.data0))
           /\ Len(frame.got) <= Larger(frame.args.byte_count - Len(frame.data0), 0)
    /\ \A i \in DOMAIN history :
           LET r == history[i]
               n == r.args.byte_count
           IN  r.op = "read_raw" =>
                   /\ Len(r.got) <= Larger(n - Len(r.data0), 0)
                   /\ (IsOk(r) /\ Len(r.data0) <= n) =>
                          /\ r.data1 = <<>>
                          /\ r.result = r.data0 \o r.got

\* a read_raw that received, returned and left pending empty while more
\* was in flight
ReadExactNeverOverReadsWitness ==
    \E i \in DOMAIN history :
        LET r == history[i] IN
        /\ r.op = "read_raw" /\ IsOk(r) /\ r.recvs >= 1
        /\ r.data1 = <<>> /\ r.stream1 # <<>>

\* C19: read_until(d, include=False) returns the bytes before the first
\* occurrence of d and leaves d at the front of pending; the same call made
\* again right after receives nothing, returns the empty byte string and
\* leaves pending as it was.
ExcludedDelimiterStays ==
    \A i \in DOMAIN history :
        LET r == history[i]
            d == r.args.value
            Again(f) == f.op = "read_until" /\ f.args.value = d /\ ~f.args.include
        IN  (r.op = "read_until" /\ ~r.args.include /\ IsOk(r)) =>
                /\ r.result = SubSeq(r.stream0, 1, FirstOccurrence(r.stream0, d))
                /\ Prefix(r.data1, Len(d)) = d
                /\ (i = Len(history) /\ Again(frame)) =>
                       frame.got = <<>> /\ ~frame.zero /\ data = r.data1
                /\ \A j \in DOMAIN history :
                       (j = i + 1 /\ Again(history[j])) =>
                           /\ IsOk(history[j])
                           /\ history[j].result = <<>>
                           /\ history[j].got = <<>> /\ history[j].recvs = 0
                           /\ history[j].data0 = r.data1
                           /\ history[j].data1 = r.data1

\* read_until(b"\n", include=False) returned b"a" from the stream, and the
\* same call made again returned b""
ExcludedDelimiterWitness ==
    /\ Len(history) = 2
    /\ history[1].op = "read_until" /\ ~history[1].args.include /\ IsOk(history[1])
    /\ history[1].result # <<>> /\ history[1].recvs >= 1
    /\ history[2].op = "read_until" /\ ~history[2].args.include /\ IsOk(history[2])
    /\ history[2].args.value = history[1].args.value

\* C18, as stated: len(pending) never exceeds n while read_raw(n) runs,
\* however much was pending when it was called.
ReadExactPendingAtMostN ==
    /\ (frame.op = "read_raw" /\ frame.args.byte_count >= 0) =>
           Len(data) <= frame.args.byte_count
    /\ \A i \in DOMAIN history :
           LET r == history[i] IN
           (r.op = "read_raw" /\ IsOk(r) /\ Len(r.data0) <= r.args.byte_count) =>
               r.data1 = <<>>

IsExit(r) == r.op = "__exit__"

\* C12: when the with-block is left, whatever its body ended with, __exit__
\* calls close() exactly once, and close() has run when __exit__ returns and
\* the exception of the body, if any, goes on to the caller: the socket is
\* closed from then on, and every call made afterwards finds it closed.
ScopeExitCloses ==
    \A i \in DOMAIN history :
        LET r == history[i] IN
        IsExit(r) =>
            /\ Cardinality({k \in DOMAIN Traced(r) :
                               Traced(r)[k] = Event("INFO", "Disconnected", <<>>)}) = 1
            /\ sock = "closed"
            /\ \A j \in DOMAIN history : j > i => ~history[j].open

\* the with-block was left on an exception after a read in it timed out,
\* the socket still open
ScopeExitWitness ==
    /\ Len(history) = 2
    /\ history[1].op = "read_until" /\ history[1].status = "timeout"
    /\ IsExit(history[2]) /\ history[2].args.exc = "other" /\ history[2].open

\* C13, as stated: leaving the with-block without an exception logs a
\* success event and suppresses nothing, leaving it on a protocol failure
\* logs an error event and suppresses the exception, and any other
\* exception propagates.
ScopeExitPolicy ==
    \A i \in DOMAIN history :
        LET r == history[i]
            Logged(level) == \E k \in DOMAIN Traced(r) : Traced(r)[k].level = level
        IN  IsExit(r) =>
                /\ r.args.exc = "none" => Logged("SUCCESS") /\ r.result = FALSE
                /\ r.args.exc = "protocol" => Logged("ERROR") /\ r.result = TRUE
                /\ r.args.exc = "other" => r.result = FALSE

\* C13, amended: __exit__ has no policy of its own: whatever the body ended
\* with it returns False, so every exception propagates, a protocol failure
\* included, and it logs nothing but the "Disconnected" of close(): no
\* success event and no error event.
ScopeExitNeverSuppresses ==
    /\ \A i \in DOMAIN history :
           LET r == history[i] IN
           IsExit(r) => r.result = FALSE /\ Len(Traced(r)) = 1
    /\ \A k \in DOMAIN log : log[k].level \notin {"SUCCESS", "ERROR"}

\* the with-block was left on a protocol failure, and without an exception
ScopeExitPolicyWitness ==
    \E i \in DOMAIN history :
        IsExit(history[i]) /\ history[i].args.exc = "protocol" /\ sock = "closed"

====
